---- MODULE Spec2Model ----
(***************************************************************************)
(* Interrupt dispatch core of the kernel: the 8259 controller-pair driver  *)
(* (src/std/pic8259.rs), the vector table and its handlers                  *)
(* (src/std/interrupts.rs), the print critical section                      *)
(* (src/std/vga_buffer.rs, src/std/serial.rs) and the boot sequence         *)
(* (src/lib.rs, src/main.rs).                                               *)
(*                                                                         *)
(* Two specifications share the variables:                                 *)
(*   SpecPic  the driver exercised operation by operation against the two  *)
(*            controller chips, with arguments drawn from bounded sets,    *)
(*            and init_idt called any number of times;                     *)
(*   Spec     the kernel booting through kernel_main and then running with *)
(*            hardware signals and CPU exceptions arriving.                *)
(***************************************************************************)
EXTENDS Integers, Sequences, FiniteSets, TLC

VARIABLES
    pics,       \* the driver's ChainedPics value: pics[0], pics[1]
    chip,       \* the two controller chips (hardware), keyed by name
    bus,        \* port accesses of the driver operation that ran last
    ret,        \* argument and result of the last handles_interrupt call
    args,       \* the offsets ChainedPics::new was called with
    intEnabled, \* the CPU interrupt-enable flag
    stack,      \* execution contexts: kernel_main at the bottom, handlers above
    lock,       \* spin::Mutex owners: 0 free, else the stack depth of the holder
    out,        \* texts written so far to each output sink
    idt,        \* the lazy static IDT: built or not, and its entries
    idtr,       \* the vector table the CPU has loaded
    boot,       \* boot progress: gdt, pics initialised, sti count, exit codes
    dev,        \* device side: signals raised; driver operations run (SpecPic)
    cnt,        \* signals accepted per line, entries of the two signal handlers
    snap,       \* the interrupted state recorded when int3 executes
    last,       \* the step taken last
    cfgtest,    \* TRUE for the cfg(test) build
    vga         \* the display Writer and the operations applied to it (SpecVga)

vars == <<pics, chip, bus, ret, args, intEnabled, stack, lock, out, idt, idtr,
          boot, dev, cnt, snap, last, cfgtest, vga>>

----------------------------------------------------------------------------
(* Program constants.                                                       *)

CMD_INIT == 17
CMD_END_OF_INTERRUPT == 32
MODE_8086 == 1
PIC_1_OFFSET == 32
PIC_2_OFFSET == PIC_1_OFFSET + 8
WAIT_PORT == 128

\* Ports the two chips decode.  The primary answers on 0x20/0x21, the
\* secondary on 0xA0/0xA1.
PIC1_CMD == 32
PIC1_DATA == 33
PIC2_CMD == 160
PIC2_DATA == 161

\* CPU exception vectors.
DOUBLE_FAULT_VECTOR == 8
BREAKPOINT_VECTOR == 3
PAGE_FAULT_VECTOR == 14

----------------------------------------------------------------------------
(* Bounds of the model.                                                     *)

MaxTicks == 2       \* timer signals the device raises
MaxKeys == 1        \* keyboard signals the device raises
MaxOps == 3         \* driver operations in one SpecPic run
MaxWrites == 3      \* write operations on the display in one SpecVga run

\* Offsets ChainedPics::new is called with in SpecPic (valid pairs: both
\* at least 32, eight apart).
OffsetPairs == {<<32, 40>>, <<240, 248>>}
\* Offsets and vectors handles_interrupt is called with in SpecPic.
TestOffsets == {32, 248}
TestVectors == {31, 32, 39, 40, 248, 255}
\* Interrupt masks the firmware may have left in a chip.
MaskValues == {0, 184}
\* Vector base the firmware (8, 112) or an earlier boot stage (32, 40) may
\* have left in the chips.
BootBases == {<<8, 112>>, <<32, 40>>}

----------------------------------------------------------------------------
(* Arithmetic on u8.                                                        *)

Bit(v, k) == (v \div (2 ^ k)) % 2

\* a + b on u8: with overflow checks (debug build) an overflow panics (-1),
\* without them (release build) it wraps.
U8Add(a, b, checks) ==
    IF a + b > 255 THEN (IF checks THEN -1 ELSE (a + b) % 256) ELSE a + b

Min(S) == CHOOSE x \in S : \A y \in S : x <= y

----------------------------------------------------------------------------
(* The controller chips (hardware).                                         *)

ChipNames == {"pic1", "pic2"}

\* base: vector of line 0; imr: mask register; isr: lines in service;
\* irr: lines requested; init: 0 operating, 1..3 awaiting ICW2..ICW4.
BootChip(b, m) == [base |-> b, imr |-> m, isr |-> {}, irr |-> {}, init |-> 0]

\* The chip decoding a port, "none" for any other port.
ChipOfPort(port) ==
    IF port \in {PIC1_CMD, PIC1_DATA} THEN "pic1"
    ELSE IF port \in {PIC2_CMD, PIC2_DATA} THEN "pic2"
    ELSE "none"

IsCommandPort(port) == port \in {PIC1_CMD, PIC2_CMD}

\* A byte written to a chip's command port: ICW1 (bit 4) restarts the
\* initialisation sequence and clears the mask; OCW3 (bit 3) changes nothing
\* modelled here; OCW2 with the EOI bit ends the interrupt in service with
\* the highest priority (non-specific) or the named line (specific).
ChipCommand(c, val) ==
    IF Bit(val, 4) = 1
    THEN [c EXCEPT !.init = 1, !.imr = 0, !.isr = {}]
    ELSE IF Bit(val, 3) = 1
    THEN c
    ELSE IF Bit(val, 5) = 1
    THEN IF Bit(val, 6) = 1
         THEN [c EXCEPT !.isr = @ \ {val % 8}]
         ELSE IF c.isr = {} THEN c ELSE [c EXCEPT !.isr = @ \ {Min(@)}]
    ELSE c

\* A byte written to a chip's data port: the mask while operating, else the
\* next byte of the initialisation sequence (ICW2 sets the vector base).
ChipData(c, val) ==
    IF c.init = 0 THEN [c EXCEPT !.imr = val]
    ELSE IF c.init = 1 THEN [c EXCEPT !.base = val - (val % 8), !.init = 2]
    ELSE IF c.init = 2 THEN [c EXCEPT !.init = 3]
    ELSE [c EXCEPT !.init = 0]

\* The chips after one port write.
PortWrite(chips, port, val) ==
    LET n == ChipOfPort(port) IN
    IF n = "none" THEN chips
    ELSE IF IsCommandPort(port)
    THEN [chips EXCEPT ![n] = ChipCommand(@, val)]
    ELSE [chips EXCEPT ![n] = ChipData(@, val)]

\* A read of a chip's data port returns its mask register.
PortRead(chips, port) ==
    LET n == ChipOfPort(port) IN
    IF n = "none" THEN 255 ELSE chips[n].imr

W(port, val) == [op |-> "w", port |-> port, val |-> val]
R(port, val) == [op |-> "r", port |-> port, val |-> val]

RECURSIVE Apply(_, _)
\* The chips after a sequence of port accesses.
Apply(chips, ops) ==
    IF ops = <<>> THEN chips
    ELSE Apply(IF Head(ops).op = "w"
               THEN PortWrite(chips, Head(ops).port, Head(ops).val)
               ELSE chips,
               Tail(ops))

----------------------------------------------------------------------------
(* The driver: src/std/pic8259.rs.                                          *)

Pic(offset, command, data) ==
    [offset |-> offset, command |-> command, data |-> data]

\* ChainedPics::new.
New(offset_one, offset_two) ==
    [i \in {0, 1} |-> IF i = 0 THEN Pic(offset_one, 32, 33)
                      ELSE Pic(offset_one, 32, 33)]

\* Pic::handles_interrupt: "true", "false", or "panic" when offset + 8
\* overflows in a build with overflow checks.  && short-circuits.
PicHandles(pic, interrupt_id, checks) ==
    IF pic.offset <= interrupt_id
    THEN LET s == U8Add(pic.offset, 8, checks) IN
         IF s = -1 THEN "panic"
         ELSE IF interrupt_id < s THEN "true" ELSE "false"
    ELSE "false"

\* Pic::end_of_interrupt.
EndOfInterrupt(pic) == <<W(pic.command, CMD_END_OF_INTERRUPT)>>

\* ChainedPics::handles_interrupt: any() over pics[0], pics[1] in order.
ChainedHandles(p, interrupt_id, checks) ==
    LET h0 == PicHandles(p[0], interrupt_id, checks) IN
    IF h0 # "false" THEN h0 ELSE PicHandles(p[1], interrupt_id, checks)

NotifyUnconditional(p, interrupt_id, checks) == EndOfInterrupt(p[0])

\* ChainedPics::notify_end_of_interrupt: the port writes it makes.
NotifyEndOfInterrupt(p, interrupt_id, checks) ==
    IF ChainedHandles(p, interrupt_id, checks) = "true"
    THEN (IF PicHandles(p[1], interrupt_id, checks) = "true"
          THEN EndOfInterrupt(p[1]) ELSE <<>>)
         \o EndOfInterrupt(p[0])
    ELSE <<>>

Wait == <<W(WAIT_PORT, 0)>>

WritePicsNoWait(p, first, second) ==
    <<W(p[0].command, first), W(p[1].command, second)>>

\* The closure write_pics of initialize.
WritePics(p, first, second) ==
    <<W(p[0].command, first)>> \o Wait \o <<W(p[1].command, second)>> \o Wait

\* ChainedPics::initialize: the port accesses it makes, given the chips it
\* runs against (the two mask reads see the chips before any write).
Initialize(p, chips) ==
    LET saved_mask_one == PortRead(chips, p[0].data)
        saved_mask_two == PortRead(chips, p[1].data)
    IN  <<R(p[0].data, saved_mask_one), R(p[1].data, saved_mask_two)>>
        \o WritePics(p, CMD_INIT, CMD_INIT)
        \o WritePics(p, p[0].offset, p[1].offset)
        \o WritePics(p, 4, 2)
        \o WritePics(p, MODE_8086, MODE_8086)
        \o <<W(p[0].command, saved_mask_one), W(p[1].command, saved_mask_two)>>

----------------------------------------------------------------------------
(* How the chip pair hands a signal to the CPU.  The secondary's output is  *)
(* wired to line 2 of the primary; within a chip a lower line has priority  *)
(* and a line is held back while one of equal or higher priority is in      *)
(* service or while its mask bit is set.                                    *)

CASCADE_LINE == 2

Masked(c) == {k \in 0 .. 7 : Bit(c.imr, k) = 1}

Ready(c) == {k \in c.irr \ Masked(c) : \A j \in c.isr : k < j}

\* Lines the primary can present, the cascade line when the secondary has one.
ReadyPrimary(chips) ==
    Ready([chips["pic1"] EXCEPT
             !.irr = @ \cup (IF Ready(chips["pic2"]) # {} THEN {CASCADE_LINE}
                             ELSE {})])

CanAccept(chips) == ReadyPrimary(chips) # {}

\* The vector the CPU receives when it accepts, and the chips afterwards.
AcceptVector(chips) ==
    LET l == Min(ReadyPrimary(chips)) IN
    IF l = CASCADE_LINE /\ Ready(chips["pic2"]) # {}
    THEN chips["pic2"].base + Min(Ready(chips["pic2"]))
    ELSE chips["pic1"].base + l

AcceptChips(chips) ==
    LET l == Min(ReadyPrimary(chips)) IN
    IF l = CASCADE_LINE /\ Ready(chips["pic2"]) # {}
    THEN LET l2 == Min(Ready(chips["pic2"])) IN
         [chips EXCEPT !["pic1"].isr = @ \cup {l},
                       !["pic2"].isr = @ \cup {l2},
                       !["pic2"].irr = @ \ {l2}]
    ELSE [chips EXCEPT !["pic1"].isr = @ \cup {l},
                       !["pic1"].irr = @ \ {l}]

----------------------------------------------------------------------------
(* The display writer: src/std/vga_buffer.rs.                               *)

TEXT_BUFFER_HEIGHT == 25
TEXT_BUFFER_WIDTH == 80

NEWLINE == 10           \* b'\n'
BLANK == 32             \* b' '
UNPRINTABLE == 254      \* 0xfe, written for a byte outside 0x20..=0x7e
PRINTABLE_FIRST == 32
PRINTABLE_LAST == 126

Rows == 0 .. TEXT_BUFFER_HEIGHT - 1
Cols == 0 .. TEXT_BUFFER_WIDTH - 1

\* struct Writer with its buffer.  oob: an index outside the buffer was used
\* (the access panics); cells: the cells write_byte has stored a character
\* in, and scrolls: the calls of new_line, both since the operation began.
WriterNew(fill) ==
    [column_position |-> 0,
     chars |-> [r \in Rows |-> [c \in Cols |-> fill]],
     oob |-> FALSE, cells |-> {}, scrolls |-> 0]

\* buffer.chars[row][col].write(..)
WriteCell(w, row, col, byte) ==
    IF row \in Rows /\ col \in Cols
    THEN [w EXCEPT !.chars[row][col] = byte]
    ELSE [w EXCEPT !.oob = TRUE]

ClearRowKeeps(w, row) == w

\* Writer::clear_row
ClearRow(w, row) ==
    IF row \in Rows
    THEN [w EXCEPT !.chars[row] = [c \in Cols |-> BLANK]]
    ELSE [w EXCEPT !.oob = TRUE]

\* Writer::new_line: rows 1 .. HEIGHT-1 are copied one row up, in that
\* order, then the last row is cleared and the column reset.
NewLine(w) ==
    IF \E row \in 1 .. TEXT_BUFFER_HEIGHT - 1 : {row, row - 1} \ Rows # {}
    THEN [w EXCEPT !.oob = TRUE]
    ELSE LET moved == [w EXCEPT !.chars =
                         [r \in Rows |-> IF r + 1 \in Rows THEN w.chars[r + 1]
                                         ELSE w.chars[r]]]
         IN  [ClearRow(moved, TEXT_BUFFER_HEIGHT - 1) EXCEPT
                 !.column_position = 0, !.scrolls = @ + 1]

\* The store of write_byte and the advance of the column; nothing more
\* happens once an access has panicked.
PutByte(w, byte) ==
    LET w2 == WriteCell(w, TEXT_BUFFER_HEIGHT - 1, w.column_position, byte) IN
    IF w2.oob THEN w2
    ELSE [w2 EXCEPT !.column_position = @ + 1,
                    !.cells = @ \cup {<<TEXT_BUFFER_HEIGHT - 1, w.column_position>>}]

WriteByteWrapLate(w, byte) ==
    IF w.oob THEN w
    ELSE IF byte = NEWLINE THEN NewLine(w)
    ELSE PutByte(IF w.column_position > TEXT_BUFFER_WIDTH THEN NewLine(w) ELSE w,
                 byte)

WriteByteWrapEager(w, byte) ==
    IF w.oob THEN w
    ELSE IF byte = NEWLINE THEN NewLine(w)
    ELSE LET w2 == PutByte(w, byte) IN
         IF w2.column_position >= TEXT_BUFFER_WIDTH THEN NewLine(w2) ELSE w2

\* Writer::write_byte
WriteByte(w, byte) ==
    IF w.oob THEN w
    ELSE IF byte = NEWLINE THEN NewLine(w)
    ELSE PutByte(IF w.column_position >= TEXT_BUFFER_WIDTH THEN NewLine(w) ELSE w,
                 byte)

RECURSIVE WriteString(_, _)
\* Writer::write_string
WriteString(w, s) ==
    IF s = <<>> THEN w
    ELSE LET byte == Head(s)
             w2 == IF w.oob THEN w
                   ELSE IF byte \in PRINTABLE_FIRST .. PRINTABLE_LAST
                   THEN WriteByte(w, byte)
                   ELSE IF byte = NEWLINE THEN NewLine(w)
                   ELSE WriteByte(w, UNPRINTABLE)
         IN  IF w2.oob THEN w2 ELSE WriteString(w2, Tail(s))

\* The display is not part of the kernel and driver specifications: no
\* writer has been built and no display memory is mapped.
NoWriter == [column_position |-> 0, chars |-> <<>>, oob |-> FALSE,
             cells |-> {}, scrolls |-> 0]
VgaIdle == [w |-> NoWriter, prev |-> NoWriter, hist |-> <<>>]

----------------------------------------------------------------------------
(* Values the kernel-side variables hold while only the driver runs.        *)

LockNames == {"WRITER", "SERIAL1", "PICS", "KEYBOARD"}
Sinks == {"WRITER", "SERIAL1"}

NoRet == [op |-> "none", offset |-> 0, vector |-> 0, result |-> "false"]
NoSnap == [taken |-> FALSE]
Step(op, v) == [op |-> op, v |-> v]

\* overflow: the kernel stack has been exhausted; reset: a triple fault has
\* reset the machine.
Boot0 == [gdt |-> FALSE, pics |-> FALSE, sti |-> 0, exits |-> <<>>,
          overflow |-> FALSE, reset |-> FALSE]
Dev0 == [ticks |-> 0, keys |-> 0, ops |-> 0]
Cnt0 == [timer |-> 0, kbd |-> 0, line0 |-> 0, line1 |-> 0]

\* One entry of the vector table: the handler ("none" when absent) and the
\* interrupt-stack-table index it runs on (-1: the interrupted code's stack).
Entry(handler, ist) == [handler |-> handler, ist |-> ist]

\* InterruptDescriptorTable::new(): 256 entries, none present.
IdtNew == [v \in 0 .. 255 |-> Entry("none", -1)]

\* builds: how often the initialiser of the lazy static has run; loads: how
\* often the CPU has been given a table.
Idt0 == [built |-> FALSE, table |-> IdtNew, builds |-> 0]
Idtr0 == [loaded |-> FALSE, table |-> IdtNew, loads |-> 0]

DOUBLE_FAULT_IST_INDEX == 0

IdtBuildPageFaultStackIndex ==
    [IdtNew EXCEPT
        ![BREAKPOINT_VECTOR] = Entry("bp", -1),
        ![PAGE_FAULT_VECTOR] = Entry("pf", DOUBLE_FAULT_IST_INDEX),
        ![DOUBLE_FAULT_VECTOR] = Entry("df", DOUBLE_FAULT_IST_INDEX),
        ![PIC_1_OFFSET] = Entry("timer", -1),
        ![PIC_1_OFFSET + 1] = Entry("kbd", -1)]

IdtBuildNoStackIndex ==
    [IdtNew EXCEPT
        ![BREAKPOINT_VECTOR] = Entry("bp", -1),
        ![PAGE_FAULT_VECTOR] = Entry("pf", -1),
        ![DOUBLE_FAULT_VECTOR] = Entry("df", -1),
        ![PIC_1_OFFSET] = Entry("timer", -1),
        ![PIC_1_OFFSET + 1] = Entry("kbd", -1)]

IdtBuildSerialPortOne ==
    [IdtNew EXCEPT
        ![BREAKPOINT_VECTOR] = Entry("bp", -1),
        ![PAGE_FAULT_VECTOR] = Entry("pf", -1),
        ![DOUBLE_FAULT_VECTOR] = Entry("df", DOUBLE_FAULT_IST_INDEX),
        ![PIC_1_OFFSET] = Entry("timer", -1),
        ![PIC_1_OFFSET + 1] = Entry("kbd", -1),
        ![PIC_1_OFFSET + 3] = Entry("kbd", -1)]

\* The lazy static IDT as its initialiser builds it.
IdtBuild ==
    [IdtNew EXCEPT
        ![BREAKPOINT_VECTOR] = Entry("bp", -1),
        ![PAGE_FAULT_VECTOR] = Entry("pf", -1),
        ![DOUBLE_FAULT_VECTOR] = Entry("df", DOUBLE_FAULT_IST_INDEX),
        ![PIC_1_OFFSET] = Entry("timer", -1),
        ![PIC_1_OFFSET + 1] = Entry("kbd", -1)]

LazyDerefRebuilds(i) ==
    [built |-> TRUE, table |-> IdtBuild, builds |-> i.builds + 1]

\* Dereferencing the lazy static: the initialiser runs on the first
\* dereference only; later ones see the value it produced.
LazyDeref(i) ==
    IF i.built THEN i
    ELSE [built |-> TRUE, table |-> IdtBuild, builds |-> i.builds + 1]

\* InterruptDescriptorTable::load: the CPU is given the table.
Load(r, table) == [loaded |-> TRUE, table |-> table, loads |-> r.loads + 1]

kernelVars == <<intEnabled, stack, lock, out, idt, idtr, boot, cnt, snap,
                cfgtest, vga>>

KernelIdle ==
    /\ intEnabled = FALSE
    /\ stack = <<>>
    /\ lock = [l \in LockNames |-> 0]
    /\ out = [s \in Sinks |-> {}]
    /\ idt = Idt0
    /\ idtr = Idtr0
    /\ boot = Boot0
    /\ cnt = Cnt0
    /\ snap = NoSnap
    /\ cfgtest = FALSE

----------------------------------------------------------------------------
(* SpecPic: the driver and init_idt, operation by operation.                *)

InitPic ==
    /\ args \in OffsetPairs
    /\ pics = New(args[1], args[2])
    /\ \E b \in BootBases, m1 \in MaskValues, m2 \in MaskValues :
          chip = [n \in ChipNames |-> IF n = "pic1" THEN BootChip(b[1], m1)
                                      ELSE BootChip(b[2], m2)]
    /\ bus = <<>>
    /\ ret = NoRet
    /\ dev = Dev0
    /\ last = Step("new", 0)
    /\ KernelIdle
    /\ vga = VgaIdle

MoreOps == dev.ops < MaxOps

\* The mask register of each chip, as it stands when an operation starts.
SavedMasks(chips) == [n \in ChipNames |-> chips[n].imr]

\* pics.initialize()
HInitialize ==
    /\ MoreOps
    /\ bus' = Initialize(pics, chip)
    /\ chip' = Apply(chip, bus')
    /\ dev' = [dev EXCEPT !.ops = @ + 1]
    /\ last' = Step("initialize", SavedMasks(chip))
    /\ ret' = NoRet
    /\ UNCHANGED <<pics, args, kernelVars>>

\* pics.notify_end_of_interrupt(v)
HNotify ==
    /\ MoreOps
    /\ \E v \in TestVectors, checks \in BOOLEAN :
          /\ bus' = NotifyEndOfInterrupt(pics, v, checks)
          /\ last' = Step("notify", v)
    /\ chip' = Apply(chip, bus')
    /\ dev' = [dev EXCEPT !.ops = @ + 1]
    /\ ret' = NoRet
    /\ UNCHANGED <<pics, args, kernelVars>>

\* Pic { offset, .. }.handles_interrupt(v), in either build
HHandles ==
    /\ MoreOps
    /\ \E o \in TestOffsets, v \in TestVectors, checks \in BOOLEAN :
          ret' = [op |-> "handles", offset |-> o, vector |-> v,
                  result |-> PicHandles(Pic(o, PIC1_CMD, PIC1_DATA), v, checks)]
    /\ dev' = [dev EXCEPT !.ops = @ + 1]
    /\ last' = Step("handles", 0)
    /\ bus' = <<>>
    /\ UNCHANGED <<pics, args, chip, kernelVars>>

\* a device raises a line of a chip
HRaise ==
    /\ MoreOps
    /\ \E n \in ChipNames, l \in {0, 1} :
          /\ l \notin chip[n].irr
          /\ chip' = [chip EXCEPT ![n].irr = @ \cup {l}]
          /\ last' = Step("raise", l)
    /\ dev' = [dev EXCEPT !.ops = @ + 1]
    /\ bus' = <<>>
    /\ ret' = NoRet
    /\ UNCHANGED <<pics, args, kernelVars>>

\* the CPU accepts the signal the chips present
HAccept ==
    /\ MoreOps
    /\ CanAccept(chip)
    /\ chip' = AcceptChips(chip)
    /\ last' = Step("accept", AcceptVector(chip))
    /\ dev' = [dev EXCEPT !.ops = @ + 1]
    /\ bus' = <<>>
    /\ ret' = NoRet
    /\ UNCHANGED <<pics, args, kernelVars>>

\* init_idt()
HInitIdt ==
    /\ MoreOps
    /\ idt' = LazyDeref(idt)
    /\ idtr' = Load(idtr, idt'.table)
    /\ dev' = [dev EXCEPT !.ops = @ + 1]
    /\ last' = Step("init_idt", 0)
    /\ bus' = <<>>
    /\ ret' = NoRet
    /\ UNCHANGED <<pics, args, chip, intEnabled, stack, lock, out, boot, cnt,
                   snap, cfgtest, vga>>

NextPic ==
    HInitialize \/ HNotify \/ HHandles \/ HRaise \/ HAccept \/ HInitIdt

SpecPic == InitPic /\ [][NextPic]_vars

----------------------------------------------------------------------------
(* The kernel: statements of kernel_main and of the handlers.               *)

QEMU_SUCCESS == 16
QEMU_FAILED == 17

St(op) == [op |-> op, sink |-> "", text |-> "", v |-> 0]
Pr(sink, text) == [op |-> "print", sink |-> sink, text |-> text, v |-> 0]
Ack(v) == [op |-> "notify", sink |-> "", text |-> "", v |-> v]

InitBodyEnableEarly == <<St("gdt_init"), St("init_idt"), St("enable"),
                         St("pics_initialize")>>

\* operating_system::init()
InitBody == <<St("gdt_init"), St("init_idt"), St("pics_initialize"),
              St("enable")>>

\* The tests of the harness: test_breakpoint_exception and
\* test_println_single_line, each a name and a body.
Tests == <<[name |-> "test_breakpoint_exception...",
            body |-> <<St("int3")>>],
           [name |-> "test_println_single_line...",
            body |-> <<Pr("WRITER", "test_println_single_line output")>>]>>

\* Testable::run
Run(test) ==
    <<Pr("SERIAL1", test.name)>> \o test.body \o <<Pr("SERIAL1", "[ok]")>>

RECURSIVE RunAll(_)
\* for test in tests { test.run(); }
RunAll(tests) ==
    IF tests = <<>> THEN <<>> ELSE Run(Head(tests)) \o RunAll(Tail(tests))

TestRunnerExitFirst(tests) ==
    <<Pr("SERIAL1", "Running tests"), St("exit_success")>> \o RunAll(tests)

\* test_runner
TestRunner(tests) ==
    <<Pr("SERIAL1", "Running tests")>> \o RunAll(tests)
    \o <<St("exit_success")>>

\* test_main(): the generated harness entry, test_runner over the tests
TestMain == TestRunner(Tests)

\* kernel_main
KernelMain(test) ==
    <<Pr("WRITER", "Hello World!")>> \o InitBody
    \o (IF test THEN TestMain ELSE <<>>)
    \o <<Pr("WRITER", "It did not crash!"), St("hlt")>>

\* timer_interrupt_handler
TimerHandler == <<Pr("WRITER", "."), Ack(PIC_1_OFFSET), St("iretq")>>

KeyboardHandlerAckIfKey == <<St("kbd_lock"), St("kbd_read"),
                             Ack(PIC_1_OFFSET + 1), St("iretq")>>

\* ps2_keyboard_interrupt_handler
KeyboardHandler == <<St("kbd_lock"), St("kbd_read"), Pr("WRITER", "key"),
                     Ack(PIC_1_OFFSET + 1), St("iretq")>>

BreakpointHandlerHalts == <<Pr("WRITER", "EXCEPTION: BREAKPOINT"), St("hlt")>>

\* breakpoint_handler
BreakpointHandler == <<Pr("WRITER", "EXCEPTION: BREAKPOINT"), St("iretq")>>

PageFaultHandlerReturns == <<Pr("WRITER", "EXCEPTION: PAGE FAULT"),
                             Pr("WRITER", "Accessed Address"),
                             Pr("WRITER", "Error Code"),
                             Pr("WRITER", "Stack Frame"),
                             St("iretq")>>

\* page_fault_handler
PageFaultHandler == <<Pr("WRITER", "EXCEPTION: PAGE FAULT"),
                      Pr("WRITER", "Accessed Address"),
                      Pr("WRITER", "Error Code"),
                      Pr("WRITER", "Stack Frame"),
                      St("hlt")>>

\* panic handler of the kernel build, and test_panic_handler of the test build
PanicHandler(test) ==
    IF test
    THEN <<Pr("SERIAL1", "[failed]"),
           Pr("SERIAL1", "Error: EXCEPTION: DOUBLE FAULT"),
           St("exit_failed"), St("hlt")>>
    ELSE <<Pr("WRITER", "EXCEPTION: DOUBLE FAULT"), St("hlt")>>

DoubleFaultHandlerReturns(test) ==
    <<Pr("WRITER", "EXCEPTION: DOUBLE FAULT"), St("iretq")>>

\* double_fault_handler: panic!(..), which runs the panic handler
DoubleFaultHandler(test) == PanicHandler(test)

Prog(h, test) ==
    CASE h = "main" -> KernelMain(test)
      [] h = "timer" -> TimerHandler
      [] h = "kbd" -> KeyboardHandler
      [] h = "bp" -> BreakpointHandler
      [] h = "pf" -> PageFaultHandler
      [] h = "df" -> DoubleFaultHandler(test)

\* A context: the routine h at statement pc (sub: progress inside a print),
\* wi: the flag without_interrupts saved, rf: the flag of the interrupted
\* code (restored by iretq), acks: vectors acknowledged by this invocation,
\* ist: the interrupt-stack-table index it runs on (-1: the kernel stack).
Frame(h, rf, ist) == [h |-> h, pc |-> 1, sub |-> 0, wi |-> FALSE, rf |-> rf,
                      acks |-> <<>>, ist |-> ist]

Depth == Len(stack)
Top == stack[Depth]
Cur == Prog(Top.h, cfgtest)[Top.pc]
Running == Depth > 0
At(op) == Running /\ Cur.op = op

SetTop(f) == [stack EXCEPT ![Depth] = f]
Advance(f) == [f EXCEPT !.pc = @ + 1, !.sub = 0]

\* The handler the CPU enters for a vector: the table's entry, or the
\* double-fault entry when the vector has no handler.
HandlerOf(table, vector) ==
    IF table[vector].handler # "none" THEN table[vector].handler
    ELSE table[DOUBLE_FAULT_VECTOR].handler

\* The stack index of the entry the CPU uses for a vector.
StackIndexOf(table, vector) ==
    IF table[vector].handler # "none" THEN table[vector].ist
    ELSE table[DOUBLE_FAULT_VECTOR].ist

Enter(stk, vector) ==
    Append(stk, Frame(HandlerOf(idtr.table, vector), intEnabled,
                      StackIndexOf(idtr.table, vector)))

RestoreAlways(saved, cur) == TRUE

\* without_interrupts: the flag after the closure, given the flag it saved.
WithoutInterruptsRestore(saved, cur) == IF saved THEN TRUE ELSE cur

driverVars == <<pics, args, ret, last>>

Init ==
    /\ args = <<PIC_1_OFFSET, PIC_2_OFFSET>>
    /\ pics = New(args[1], args[2])
    /\ \E b \in BootBases, m \in MaskValues :
          chip = [n \in ChipNames |-> IF n = "pic1" THEN BootChip(b[1], m)
                                      ELSE BootChip(b[2], m)]
    /\ bus = <<>>
    /\ ret = NoRet
    /\ dev = Dev0
    /\ last = Step("kernel", 0)
    /\ intEnabled = FALSE
    /\ cfgtest \in BOOLEAN
    /\ vga = VgaIdle
    /\ stack = <<Frame("main", FALSE, -1)>>
    /\ lock = [l \in LockNames |-> 0]
    /\ out = [s \in Sinks |-> {}]
    /\ idt = Idt0
    /\ idtr = Idtr0
    /\ boot = Boot0
    /\ cnt = Cnt0
    /\ snap = NoSnap

(* _print: without_interrupts(|| SINK.lock().write_fmt(args)) in four steps. *)

PrintDisableOmitted ==
    /\ At("print") /\ Top.sub = 0
    /\ stack' = SetTop([Top EXCEPT !.wi = intEnabled, !.sub = 1])
    /\ UNCHANGED <<chip, bus, intEnabled, lock, out, idt, idtr, boot, dev,
                   cnt, snap, cfgtest, vga, driverVars>>

\* without_interrupts saves the flag and disables delivery
PrintDisable ==
    /\ At("print") /\ Top.sub = 0
    /\ stack' = SetTop([Top EXCEPT !.wi = intEnabled, !.sub = 1])
    /\ intEnabled' = FALSE
    /\ UNCHANGED <<chip, bus, lock, out, idt, idtr, boot, dev, cnt, snap,
                   cfgtest, vga, driverVars>>

\* SINK.lock(): spins while the mutex is held
PrintLock ==
    /\ At("print") /\ Top.sub = 1
    /\ lock[Cur.sink] = 0
    /\ lock' = [lock EXCEPT ![Cur.sink] = Depth]
    /\ stack' = SetTop([Top EXCEPT !.sub = 2])
    /\ UNCHANGED <<chip, bus, intEnabled, out, idt, idtr, boot, dev, cnt,
                   snap, cfgtest, vga, driverVars>>

\* write_fmt, then the guard is dropped
PrintWrite ==
    /\ At("print") /\ Top.sub = 2
    /\ out' = [out EXCEPT ![Cur.sink] = @ \cup {Cur.text}]
    /\ lock' = [lock EXCEPT ![Cur.sink] = 0]
    /\ stack' = SetTop([Top EXCEPT !.sub = 3])
    /\ UNCHANGED <<chip, bus, intEnabled, idt, idtr, boot, dev, cnt, snap,
                   cfgtest, vga, driverVars>>

\* without_interrupts re-enables delivery if it was enabled
PrintRestore ==
    /\ At("print") /\ Top.sub = 3
    /\ intEnabled' = WithoutInterruptsRestore(Top.wi, intEnabled)
    /\ stack' = SetTop(Advance(Top))
    /\ UNCHANGED <<chip, bus, lock, out, idt, idtr, boot, dev, cnt, snap,
                   cfgtest, vga, driverVars>>

(* init() *)

GdtInit ==
    /\ At("gdt_init")
    /\ boot' = [boot EXCEPT !.gdt = TRUE]
    /\ stack' = SetTop(Advance(Top))
    /\ UNCHANGED <<chip, bus, intEnabled, lock, out, idt, idtr, dev, cnt,
                   snap, cfgtest, vga, driverVars>>

InitIdtLoadsUnbuilt ==
    /\ At("init_idt")
    /\ idtr' = Load(idtr, idt.table)
    /\ idt' = LazyDeref(idt)
    /\ stack' = SetTop(Advance(Top))
    /\ UNCHANGED <<chip, bus, intEnabled, lock, out, boot, dev, cnt, snap,
                   cfgtest, vga, driverVars>>

\* init_idt: IDT.load(); the first dereference of IDT builds the table
InitIdt ==
    /\ At("init_idt")
    /\ idt' = LazyDeref(idt)
    /\ idtr' = Load(idtr, idt'.table)
    /\ stack' = SetTop(Advance(Top))
    /\ UNCHANGED <<chip, bus, intEnabled, lock, out, boot, dev, cnt, snap,
                   cfgtest, vga, driverVars>>

\* PICS.lock().initialize()
PicsInitialize ==
    /\ At("pics_initialize")
    /\ lock["PICS"] = 0
    /\ bus' = Initialize(pics, chip)
    /\ chip' = Apply(chip, bus')
    /\ boot' = [boot EXCEPT !.pics = TRUE]
    /\ stack' = SetTop(Advance(Top))
    /\ UNCHANGED <<intEnabled, lock, out, idt, idtr, dev, cnt, snap, cfgtest, vga,
                   driverVars>>

\* x86_64::instructions::interrupts::enable()
Enable ==
    /\ At("enable")
    /\ intEnabled' = TRUE
    /\ boot' = [boot EXCEPT !.sti = @ + 1]
    /\ stack' = SetTop(Advance(Top))
    /\ UNCHANGED <<chip, bus, lock, out, idt, idtr, dev, cnt, snap, cfgtest, vga,
                   driverVars>>

\* exit_qemu(code): a write to port 0xf4
ExitQemu ==
    /\ At("exit_success") \/ At("exit_failed")
    /\ boot' = [boot EXCEPT !.exits =
                  Append(@, IF Cur.op = "exit_success" THEN QEMU_SUCCESS
                            ELSE QEMU_FAILED)]
    /\ stack' = SetTop(Advance(Top))
    /\ UNCHANGED <<chip, bus, intEnabled, lock, out, idt, idtr, dev, cnt,
                   snap, cfgtest, vga, driverVars>>

\* htl_loop: hlt, again and again
Hlt ==
    /\ At("hlt")
    /\ UNCHANGED vars

(* CPU: exceptions, signals, return from a handler. *)

\* What the interrupted code can observe, recorded when int3 executes.
Observable(frame) ==
    [taken |-> TRUE, frame |-> frame, intEnabled |-> intEnabled,
     idtr |-> idtr, idt |-> idt, pics |-> pics, lock |-> lock,
     ctl |-> [n \in ChipNames |-> [chip[n] EXCEPT !.irr = {}]]]

\* int3 in test_breakpoint_exception: a trap, the return address is the next
\* instruction
Int3 ==
    /\ At("int3")
    /\ idtr.loaded
    /\ snap' = Observable(Advance(Top))
    /\ stack' = Enter(SetTop(Advance(Top)), BREAKPOINT_VECTOR)
    /\ intEnabled' = FALSE
    /\ UNCHANGED <<chip, bus, lock, out, idt, idtr, boot, dev, cnt, cfgtest, vga,
                   driverVars>>

\* No page-fault or double-fault handler is on the stack: neither returns, so
\* a fault is taken at most once on any path.
NoFaultTaken == \A i \in 1 .. Depth : stack[i].h \notin {"pf", "df"}

\* a page fault, at any instruction outside a fault handler
PageFault ==
    /\ Running /\ idtr.loaded
    /\ NoFaultTaken
    /\ stack' = Enter(stack, PAGE_FAULT_VECTOR)
    /\ intEnabled' = FALSE
    /\ UNCHANGED <<chip, bus, lock, out, idt, idtr, boot, dev, cnt, snap,
                   cfgtest, vga, driverVars>>

\* a double fault, at any instruction outside a fault handler
DoubleFault ==
    /\ Running /\ idtr.loaded
    /\ NoFaultTaken
    /\ stack' = Enter(stack, DOUBLE_FAULT_VECTOR)
    /\ intEnabled' = FALSE
    /\ UNCHANGED <<chip, bus, lock, out, idt, idtr, boot, dev, cnt, snap,
                   cfgtest, vga, driverVars>>

\* An entry whose handler starts on a stack of its own: it names a stack
\* index and the segment/stack builder has installed the stacks.
SwitchesStack(entry) == entry.handler # "none" /\ entry.ist >= 0 /\ boot.gdt

\* the code running on the kernel stack exhausts it: the access below the
\* stack raises a page fault; an entry that stays on the exhausted stack
\* cannot be entered, which turns the page fault into a double fault and a
\* double fault into a triple fault, the machine reset
StackOverflow ==
    /\ Running /\ idtr.loaded
    /\ NoFaultTaken
    /\ Top.ist = -1
    /\ LET pf == idtr.table[PAGE_FAULT_VECTOR]
           df == idtr.table[DOUBLE_FAULT_VECTOR]
       IN  IF SwitchesStack(pf)
           THEN /\ stack' = Enter(stack, PAGE_FAULT_VECTOR)
                /\ boot' = [boot EXCEPT !.overflow = TRUE]
           ELSE IF SwitchesStack(df)
           THEN /\ stack' = Enter(stack, DOUBLE_FAULT_VECTOR)
                /\ boot' = [boot EXCEPT !.overflow = TRUE]
           ELSE /\ stack' = <<>>
                /\ boot' = [boot EXCEPT !.overflow = TRUE, !.reset = TRUE]
    /\ intEnabled' = FALSE
    /\ UNCHANGED <<chip, bus, lock, out, idt, idtr, dev, cnt, snap, cfgtest, vga,
                   driverVars>>

DeliverKeepsFlag ==
    /\ Running /\ intEnabled /\ idtr.loaded
    /\ CanAccept(chip)
    /\ chip' = AcceptChips(chip)
    /\ LET v == AcceptVector(chip)
           l == Min(ReadyPrimary(chip))
           h == HandlerOf(idtr.table, v) IN
       /\ stack' = Enter(stack, v)
       /\ cnt' = [cnt EXCEPT
                    !.line0 = IF l = 0 THEN @ + 1 ELSE @,
                    !.line1 = IF l = 1 THEN @ + 1 ELSE @,
                    !.timer = IF h = "timer" THEN @ + 1 ELSE @,
                    !.kbd = IF h = "kbd" THEN @ + 1 ELSE @]
    /\ intEnabled' = intEnabled
    /\ UNCHANGED <<bus, lock, out, idt, idtr, boot, dev, snap, cfgtest, vga,
                   driverVars>>

\* the CPU accepts the signal the chips present and enters its handler
Deliver ==
    /\ Running /\ intEnabled /\ idtr.loaded
    /\ CanAccept(chip)
    /\ chip' = AcceptChips(chip)
    /\ LET v == AcceptVector(chip)
           l == Min(ReadyPrimary(chip))
           h == HandlerOf(idtr.table, v) IN
       /\ stack' = Enter(stack, v)
       /\ cnt' = [cnt EXCEPT
                    !.line0 = IF l = 0 THEN @ + 1 ELSE @,
                    !.line1 = IF l = 1 THEN @ + 1 ELSE @,
                    !.timer = IF h = "timer" THEN @ + 1 ELSE @,
                    !.kbd = IF h = "kbd" THEN @ + 1 ELSE @]
    /\ intEnabled' = FALSE
    /\ UNCHANGED <<bus, lock, out, idt, idtr, boot, dev, snap, cfgtest, vga,
                   driverVars>>

\* iretq at the end of a handler: the interrupted code and its flag resume;
\* the KEYBOARD guard of a keyboard handler is dropped on the way out
Iretq ==
    /\ At("iretq")
    /\ Depth > 1
    /\ intEnabled' = Top.rf
    /\ lock' = [l \in LockNames |-> IF lock[l] = Depth THEN 0 ELSE lock[l]]
    /\ stack' = SubSeq(stack, 1, Depth - 1)
    /\ UNCHANGED <<chip, bus, out, idt, idtr, boot, dev, cnt, snap, cfgtest, vga,
                   driverVars>>

(* Hardware-vector handlers. *)

\* PICS.lock().notify_end_of_interrupt(vector)
Notify ==
    /\ At("notify")
    /\ lock["PICS"] = 0
    /\ \E checks \in BOOLEAN :
          bus' = NotifyEndOfInterrupt(pics, Cur.v, checks)
    /\ chip' = Apply(chip, bus')
    /\ stack' = SetTop(Advance([Top EXCEPT !.acks = Append(@, Cur.v)]))
    /\ UNCHANGED <<intEnabled, lock, out, idt, idtr, boot, dev, cnt, snap,
                   cfgtest, vga, driverVars>>

\* KEYBOARD.lock()
KbdLock ==
    /\ At("kbd_lock")
    /\ lock["KEYBOARD"] = 0
    /\ lock' = [lock EXCEPT !["KEYBOARD"] = Depth]
    /\ stack' = SetTop(Advance(Top))
    /\ UNCHANGED <<chip, bus, intEnabled, out, idt, idtr, boot, dev, cnt,
                   snap, cfgtest, vga, driverVars>>

\* port 0x60 is read and the scan code decoded: a key to print, or none
KbdRead ==
    /\ At("kbd_read")
    /\ \E decoded \in BOOLEAN :
          stack' = SetTop([Top EXCEPT !.pc = IF decoded THEN @ + 1 ELSE @ + 2])
    /\ UNCHANGED <<chip, bus, intEnabled, lock, out, idt, idtr, boot, dev,
                   cnt, snap, cfgtest, vga, driverVars>>

(* Devices.  A signal raised while delivery is disabled stays pending in the *)
(* chip until delivery resumes; it is raised here once delivery is enabled.  *)

\* the timer raises line 0 of the primary controller
RaiseTimer ==
    /\ Running /\ intEnabled
    /\ dev.ticks < MaxTicks
    /\ 0 \notin chip["pic1"].irr
    /\ chip' = [chip EXCEPT !["pic1"].irr = @ \cup {0}]
    /\ dev' = [dev EXCEPT !.ticks = @ + 1]
    /\ UNCHANGED <<bus, intEnabled, stack, lock, out, idt, idtr, boot, cnt,
                   snap, cfgtest, vga, driverVars>>

\* the keyboard raises line 1 of the primary controller
RaiseKey ==
    /\ Running /\ intEnabled
    /\ dev.keys < MaxKeys
    /\ 1 \notin chip["pic1"].irr
    /\ chip' = [chip EXCEPT !["pic1"].irr = @ \cup {1}]
    /\ dev' = [dev EXCEPT !.keys = @ + 1]
    /\ UNCHANGED <<bus, intEnabled, stack, lock, out, idt, idtr, boot, cnt,
                   snap, cfgtest, vga, driverVars>>

Next ==
    \/ PrintDisable \/ PrintLock \/ PrintWrite \/ PrintRestore
    \/ GdtInit \/ InitIdt \/ PicsInitialize \/ Enable \/ ExitQemu \/ Hlt
    \/ Int3 \/ PageFault \/ DoubleFault \/ StackOverflow \/ Deliver \/ Iretq
    \/ Notify \/ KbdLock \/ KbdRead
    \/ RaiseTimer \/ RaiseKey

Spec == Init /\ [][Next]_vars

----------------------------------------------------------------------------
(* SpecVga: the display writer, write operation by write operation.         *)

\* What the display memory holds before the first write.
TestFills == {0, BLANK}

Line(ch, n) == [i \in 1 .. n |-> ch]

\* Strings write_string is called with: an empty line, two lines of exactly
\* the display width, a line one longer than the width, a short and a
\* full-width string framed by newlines (as writeln!(writer, "\n{}", s)
\* produces), a string without newline ending in a non-printable byte, and
\* a full-width string without newline.
TestStrings ==
    { <<NEWLINE>>,
      Line(65, TEXT_BUFFER_WIDTH) \o <<NEWLINE>>,
      Line(66, TEXT_BUFFER_WIDTH) \o <<NEWLINE>>,
      Line(67, TEXT_BUFFER_WIDTH + 1) \o <<NEWLINE>>,
      <<NEWLINE, 104, 105, NEWLINE>>,
      <<NEWLINE>> \o Line(68, TEXT_BUFFER_WIDTH) \o <<NEWLINE>>,
      <<104, 200>>,
      Line(69, TEXT_BUFFER_WIDTH) }

\* Bytes write_byte is called with.
TestBytes == {NEWLINE, 200}

nonVgaVars == <<pics, chip, bus, ret, args, intEnabled, stack, lock, out, idt,
                idtr, boot, dev, cnt, snap, last, cfgtest>>

InitVga ==
    /\ \E f \in TestFills :
          vga = [w |-> WriterNew(f), prev |-> WriterNew(f), hist |-> <<>>]
    /\ args = <<PIC_1_OFFSET, PIC_2_OFFSET>>
    /\ pics = New(args[1], args[2])
    /\ chip = [n \in ChipNames |-> BootChip(PIC_1_OFFSET, 0)]
    /\ bus = <<>>
    /\ ret = NoRet
    /\ dev = Dev0
    /\ last = Step("vga", 0)
    /\ KernelIdle

MoreWrites == Len(vga.hist) < MaxWrites /\ ~vga.w.oob

Begin(w) == [w EXCEPT !.cells = {}, !.scrolls = 0]

\* One operation as the history keeps it: the bytes, the column before it
\* and the scrolls it caused.
Written(op, s, before, after) ==
    [op |-> op, s |-> s, col |-> before.column_position,
     scrolls |-> after.scrolls]

\* writer.write_string(s)
VWriteString ==
    /\ MoreWrites
    /\ \E s \in TestStrings :
          LET after == WriteString(Begin(vga.w), s) IN
          vga' = [w |-> after, prev |-> vga.w,
                  hist |-> Append(vga.hist,
                                  Written("write_string", s, vga.w, after))]
    /\ UNCHANGED nonVgaVars

\* writer.write_byte(b)
VWriteByte ==
    /\ MoreWrites
    /\ \E b \in TestBytes :
          LET after == WriteByte(Begin(vga.w), b) IN
          vga' = [w |-> after, prev |-> vga.w,
                  hist |-> Append(vga.hist,
                                  Written("write_byte", <<b>>, vga.w, after))]
    /\ UNCHANGED nonVgaVars

NextVga == VWriteString \/ VWriteByte

SpecVga == InitVga /\ [][NextVga]_vars

----------------------------------------------------------------------------
(* Properties.                                                              *)

EOI == CMD_END_OF_INTERRUPT

\* The vectors of the secondary controller as the caller of new asked for.
SecondaryRange == args[2] .. args[2] + 7

FrameOp(i) == Prog(stack[i].h, cfgtest)[stack[i].pc].op

\* A frame of handler h is never popped, and once in the halt loop stays there.
Stays(h) ==
    \A i \in 1 .. Depth :
        stack[i].h = h =>
            /\ Len(stack') >= i
            /\ stack'[i].h = h
            /\ (FrameOp(i) = "hlt" => stack'[i] = stack[i])

Halted(h) == \E i \in 1 .. Depth : stack[i].h = h /\ FrameOp(i) = "hlt"

\* C1: notify_end_of_interrupt on a vector of the secondary controller writes
\* the end-of-interrupt command to the secondary's command port (decoded by
\* the secondary chip) and then to the primary's command port.
C1_SecondaryThenPrimary ==
    (/\ last.op = "notify"
     /\ \/ last.v \in SecondaryRange
        \/ PicHandles(pics[1], last.v, FALSE) = "true")
    => bus = <<W(PIC2_CMD, EOI), W(PIC1_CMD, EOI)>>

\* C2: once init() has run, every timer signal the CPU accepts enters
\* timer_interrupt_handler, and when all handlers have returned no line of
\* either controller is left in service.
C2_TimerDelivered ==
    /\ cnt.timer = cnt.line0
    /\ (Depth = 1 => \A n \in ChipNames : chip[n].isr = {})

\* C3: the pair built by new(offset_one, offset_two) has two disjoint 8-wide
\* vector ranges above vector 31, the secondary's starting at offset_two.
C3_DisjointRanges ==
    /\ pics[0].offset = args[1]
    /\ pics[1].offset = args[2]
    /\ (pics[0].offset .. pics[0].offset + 7)
         \cap (pics[1].offset .. pics[1].offset + 7) = {}
    /\ pics[0].offset > 31 /\ pics[1].offset > 31

\* C4: the two controllers have distinct port pairs, the primary's decoded by
\* the primary chip and the secondary's by the secondary chip, so no write of
\* the driver to one controller reaches the other.
C4_DistinctPorts ==
    /\ {pics[0].command, pics[0].data} \cap {pics[1].command, pics[1].data} = {}
    /\ ChipOfPort(pics[0].command) = "pic1" /\ ChipOfPort(pics[0].data) = "pic1"
    /\ ChipOfPort(pics[1].command) = "pic2" /\ ChipOfPort(pics[1].data) = "pic2"

\* C5: Pic::handles_interrupt returns a value for every offset and vector,
\* true exactly when offset <= vector < offset + 8 (unbounded sum).
C5_HandlesIffInRange ==
    ret.op = "handles" =>
        /\ ret.result \in {"true", "false"}
        /\ (ret.result = "true")
             <=> (ret.offset <= ret.vector /\ ret.vector < ret.offset + 8)

SetupDone == boot.gdt /\ idtr.loaded /\ boot.pics

\* C6: on the boot path the interrupt-enable flag is false until gdt::init,
\* init_idt and PICS.initialize() have run, in that order, and init()
\* executes enable() exactly once, after all three.
C6_EnableAfterSetup ==
    /\ intEnabled => SetupDone
    /\ boot.sti > 0 => SetupDone
    /\ boot.pics => idtr.loaded
    /\ idtr.loaded => boot.gdt
    /\ boot.sti <= 1
    /\ (Running /\ stack[1].pc > 1 + Len(InitBody)) => boot.sti = 1

C6_Witness == intEnabled /\ boot.sti = 1 /\ Depth = 1 /\ SetupDone

DfDiagnosticEmitted ==
    IF cfgtest THEN "Error: EXCEPTION: DOUBLE FAULT" \in out["SERIAL1"]
    ELSE "EXCEPTION: DOUBLE FAULT" \in out["WRITER"]

\* C7: the double-fault handler never returns to the interrupted code; it
\* reaches the halt loop only after its diagnostic is on the output sink, and
\* once in the halt loop it stays there.
C7_DoubleFaultNeverReturns ==
    /\ [](Halted("df") => DfDiagnosticEmitted)
    /\ [][Stays("df")]_vars

C7_Witness == Halted("df") /\ DfDiagnosticEmitted /\ Depth > 1

BpReturns == Running /\ Top.h = "bp" /\ Cur.op = "iretq" /\ Len(stack') = Depth - 1

\* C8: int3 from normal code runs the breakpoint handler, which prints and
\* returns (it never halts); when it returns, execution is at the instruction
\* after the trap with the interrupted frame, the interrupt-enable flag, the
\* vector table, the locks and the controller state as they were at the trap.
C8_BreakpointTransparent ==
    /\ [](~Halted("bp"))
    /\ [][BpReturns =>
            /\ "EXCEPTION: BREAKPOINT" \in out["WRITER"]
            /\ Observable(Top)' = snap]_vars

C8_Witness ==
    /\ snap.taken /\ Depth = 1
    /\ Observable(stack[1]) = snap
    /\ "EXCEPTION: BREAKPOINT" \in out["WRITER"]

PfDiagnostics == {"EXCEPTION: PAGE FAULT", "Accessed Address", "Error Code",
                  "Stack Frame"}

\* C9 as claimed: the page-fault handler prints and returns, and does not
\* leave the processor halted.
C9_PageFaultReturns == ~Halted("pf")

\* C9 as amended: the page-fault handler never returns to the interrupted
\* code; it reaches the halt loop only after its four diagnostic lines are on
\* the display, and once in the halt loop it stays there.
C9_PageFaultHalts ==
    /\ [](Halted("pf") => PfDiagnostics \subseteq out["WRITER"])
    /\ [][Stays("pf")]_vars

C9_Witness == Halted("pf") /\ PfDiagnostics \subseteq out["WRITER"]

\* The vector a hardware handler is registered on.
OwnVector(h) == CHOOSE v \in 0 .. 255 : IdtBuild[v].handler = h

HardwareHandlers == {"timer", "kbd"}

\* C10: every invocation of the timer or keyboard handler calls
\* notify_end_of_interrupt exactly once, with its own vector, after its other
\* work and right before it returns, whether or not a key was decoded.
C10_AckOncePerInvocation ==
    /\ [](\A i \in 1 .. Depth :
            stack[i].h \in HardwareHandlers =>
                /\ stack[i].acks \in {<<>>, <<OwnVector(stack[i].h)>>}
                /\ (stack[i].acks # <<>> => FrameOp(i) = "iretq")
                /\ (FrameOp(i) = "iretq" => stack[i].acks # <<>>))
    /\ [][(Running /\ Top.h \in HardwareHandlers /\ Len(stack') = Depth - 1)
              => Top.acks = <<OwnVector(Top.h)>>]_vars

C10_Witness ==
    /\ Running /\ Top.h = "kbd" /\ Cur.op = "iretq"
    /\ Top.acks = <<PIC_1_OFFSET + 1>>
    /\ "key" \notin out["WRITER"]
    /\ cnt.timer > 0

----------------------------------------------------------------------------
(* initialize(): masks, byte sequence, delays.                              *)

RECURSIVE SelectSeqNoWait(_)
\* The accesses of a trace that address a controller port of the driver or
\* of a chip, i.e. the trace without its delay writes.
SelectSeqNoWait(ops) ==
    IF ops = <<>> THEN <<>>
    ELSE (IF Head(ops).port = WAIT_PORT THEN <<>> ELSE <<Head(ops)>>)
         \o SelectSeqNoWait(Tail(ops))

IsControllerWrite(a) == a.op = "w" /\ a.port # WAIT_PORT

\* C11: initialize() leaves in each chip's mask register the value the
\* register held when the call started.
C11_MasksPreserved ==
    last.op = "initialize" =>
        \A n \in ChipNames : chip[n].imr = last.v[n]

\* C12: initialize() reads the two masks, then sends each controller the
\* init command on its command port and its offset byte, chaining byte
\* (4, 2) and mode byte on its data port, and restores the masks last.
C12_InitSequence ==
    last.op = "initialize" =>
        LET t == SelectSeqNoWait(bus) IN
        /\ Len(t) = 12
        /\ t[1].op = "r" /\ t[1].port = pics[0].data
        /\ t[2].op = "r" /\ t[2].port = pics[1].data
        /\ SubSeq(t, 3, 10) =
              << W(pics[0].command, CMD_INIT), W(pics[1].command, CMD_INIT),
                 W(pics[0].data, pics[0].offset), W(pics[1].data, pics[1].offset),
                 W(pics[0].data, 4), W(pics[1].data, 2),
                 W(pics[0].data, MODE_8086), W(pics[1].data, MODE_8086) >>
        /\ t[11].op = "w" /\ t[11].val = t[1].val
        /\ t[12].op = "w" /\ t[12].val = t[2].val

----------------------------------------------------------------------------
(* The vector table.                                                        *)

\* C14: however often init_idt() is called, the table is built once, by the
\* first call; every call loads that table, whose contents stay those the
\* first call produced.
C14_BuiltOnce ==
    /\ idt.builds <= 1
    /\ idt.built <=> idt.builds = 1
    /\ idtr.loads > 0 =>
          /\ idt.built /\ idtr.loaded
          /\ idt.table = IdtBuild
          /\ idtr.table = idt.table

C14_Witness == idtr.loads = 2 /\ idt.builds = 1 /\ last.op = "init_idt"

\* C15: once the table is loaded, no step of the kernel changes it: in every
\* state after the load the table in memory equals the contents the CPU was
\* given, and no step alters the table or what the CPU has loaded.
C15_TableImmutableAfterLoad ==
    /\ [](idtr.loaded => idt.built /\ idt.table = idtr.table)
    /\ [][idtr.loaded => idt' = idt /\ idtr' = idtr]_vars

C15_Witness ==
    /\ idtr.loaded /\ Depth = 1 /\ At("hlt")
    /\ cnt.timer > 0 /\ cnt.kbd > 0
    /\ "It did not crash!" \in out["WRITER"]

\* The vectors whose entry in the table built by the initialiser names a
\* stack index.
BuiltStackSwitching == {v \in 0 .. 255 : IdtBuild[v].ist # -1}

\* C16: in the built table the double-fault entry names the stack index
\* DOUBLE_FAULT_IST_INDEX and no other entry names a stack index; the
\* breakpoint, page-fault, timer and keyboard entries are registered and run
\* on the interrupted code's stack.
C16_OnlyDoubleFaultSwitchesStack ==
    idt.built =>
        /\ idt.table = IdtBuild
        /\ idt.table[DOUBLE_FAULT_VECTOR] = Entry("df", DOUBLE_FAULT_IST_INDEX)
        /\ BuiltStackSwitching = {DOUBLE_FAULT_VECTOR}
        /\ \A v \in {BREAKPOINT_VECTOR, PAGE_FAULT_VECTOR, PIC_1_OFFSET,
                      PIC_1_OFFSET + 1} : idt.table[v] # Entry("none", -1)
        /\ \A i \in 1 .. Depth :
              stack[i].ist = (IF stack[i].h = "df" THEN DOUBLE_FAULT_IST_INDEX
                              ELSE -1)

C16_Witness ==
    /\ idt.built /\ Depth = 3
    /\ stack[2].h = "timer" /\ stack[2].ist = -1
    /\ Top.h = "df" /\ Top.ist = DOUBLE_FAULT_IST_INDEX

\* C17: once the kernel stack is exhausted (the dedicated stack installed,
\* the table loaded), the double-fault handler is the running context, on
\* the dedicated stack; the machine is never reset; the contexts beneath
\* the handler never run again; and the handler is in its halt loop only
\* with its diagnostic emitted.
C17_OverflowToDoubleFault ==
    /\ [](boot.overflow =>
            /\ ~boot.reset /\ boot.gdt
            /\ Running /\ Top.h = "df"
            /\ Top.ist = DOUBLE_FAULT_IST_INDEX
            /\ (At("hlt") => DfDiagnosticEmitted))
    /\ [][boot.overflow =>
            /\ Len(stack') = Depth
            /\ SubSeq(stack', 1, Depth - 1) = SubSeq(stack, 1, Depth - 1)]_vars
    /\ [](boot.reset => FALSE)

C17_Witness ==
    /\ boot.overflow /\ Halted("df") /\ DfDiagnosticEmitted
    /\ Top.ist = DOUBLE_FAULT_IST_INDEX /\ Depth = 2
    /\ stack[1].pc > 1 + Len(InitBody)

----------------------------------------------------------------------------
(* Lock discipline.                                                         *)

\* Locks a hardware-vector handler acquires.
HandlerLocks == {"WRITER", "SERIAL1", "PICS"}

\* The sink the print statement of frame i writes to.
FrameSink(i) == Prog(stack[i].h, cfgtest)[stack[i].pc].sink

\* A step that takes the PICS lock for a driver operation.
UsesPics == (At("pics_initialize") \/ At("notify")) /\ stack' # stack

\* C18: a lock that a hardware handler acquires is held, and is taken, only
\* with signal delivery disabled, so no timer or keyboard handler is ever on
\* top of a context that holds WRITER, SERIAL1 or PICS, and none waits for
\* a lock.
C18_NoHandlerWhileLockHeld ==
    /\ [](\A l \in HandlerLocks : lock[l] # 0 => ~intEnabled)
    /\ [](\A i \in 1 .. Depth :
            stack[i].h \in HardwareHandlers =>
                /\ \A l \in HandlerLocks : lock[l] = 0 \/ lock[l] >= i
                /\ (FrameOp(i) = "print" /\ stack[i].sub = 1)
                      => (lock[FrameSink(i)] = 0 \/ lock[FrameSink(i)] > i))
    /\ [][(UsesPics \/ \E l \in HandlerLocks : lock[l] = 0 /\ lock'[l] # 0)
              => ~intEnabled]_vars

C18_Witness ==
    /\ Depth = 2 /\ Top.h = "timer" /\ lock["WRITER"] = 2
    /\ FrameOp(1) = "print" /\ stack[1].sub = 0

\* The running context is inside _print, between the entry and the exit of
\* without_interrupts.
InPrint == At("print") /\ Top.sub \in 1 .. 3

\* C19: _print, on the display or the serial port: the flag is false from
\* the entry of without_interrupts to its exit, the sink's lock is held
\* only in between, by the printing context, and at the return the lock is
\* free of that context and the flag is the one found at the call.
C19_PrintScopedDisable ==
    /\ [](InPrint => ~intEnabled)
    /\ [](\A s \in Sinks : lock[s] # 0 =>
            /\ FrameOp(lock[s]) = "print" /\ stack[lock[s]].sub = 2
            /\ FrameSink(lock[s]) = s)
    /\ [][(At("print") /\ Top.sub = 0 /\ stack' # stack /\ Len(stack') = Depth)
              => stack'[Depth].wi = intEnabled]_vars
    /\ [][(InPrint /\ Len(stack') >= Depth) => stack'[Depth].wi = Top.wi]_vars
    /\ [][(At("print") /\ Top.sub = 3 /\ stack' # stack /\ Len(stack') = Depth)
              => /\ intEnabled' = Top.wi
                 /\ \A s \in Sinks : lock'[s] # Depth]_vars

C19_Witness ==
    /\ cfgtest /\ Depth = 1 /\ At("hlt") /\ intEnabled
    /\ "Hello World!" \in out["WRITER"]
    /\ "It did not crash!" \in out["WRITER"]
    /\ "[ok]" \in out["SERIAL1"]
    /\ \A l \in LockNames : lock[l] = 0

ExceptionHandlers == {"bp", "pf", "df"}

\* C20: no exception handler waits, in the print of its diagnostic, for a
\* sink lock held by a context it interrupted (which cannot run again
\* before the handler returns).
C20_DiagnosticNeverBlocked ==
    \A i \in 1 .. Depth :
        (/\ stack[i].h \in ExceptionHandlers
         /\ FrameOp(i) = "print" /\ stack[i].sub = 1)
        => ~(lock[FrameSink(i)] # 0 /\ lock[FrameSink(i)] < i)

----------------------------------------------------------------------------
(* The display writer.                                                      *)

\* C21: after every write operation no index outside the buffer has been
\* used, column_position is within 0 .. TEXT_BUFFER_WIDTH, and every cell
\* write_byte stored a character in lies in the last row, at a column below
\* TEXT_BUFFER_WIDTH.
C21_WriterInBounds ==
    /\ ~vga.w.oob
    /\ vga.w.column_position \in 0 .. TEXT_BUFFER_WIDTH
    /\ \A cell \in vga.w.cells :
          cell[1] = TEXT_BUFFER_HEIGHT - 1 /\ cell[2] \in Cols

C21_Witness ==
    /\ Len(vga.hist) = 2
    /\ vga.hist[1].s = Line(69, TEXT_BUFFER_WIDTH)
    /\ vga.hist[2].op = "write_byte" /\ vga.hist[2].s = <<200>>
    /\ vga.hist[2].col = TEXT_BUFFER_WIDTH
    /\ vga.prev.cells = {<<TEXT_BUFFER_HEIGHT - 1, c>> : c \in Cols}
    /\ vga.w.scrolls = 1
    /\ vga.w.cells = {<<TEXT_BUFFER_HEIGHT - 1, 0>>}
    /\ vga.w.column_position = 1
    /\ vga.w.chars[TEXT_BUFFER_HEIGHT - 2][TEXT_BUFFER_WIDTH - 1] = 69

IsPrintable(b) == b \in PRINTABLE_FIRST .. PRINTABLE_LAST

\* s is "\n", then at most TEXT_BUFFER_WIDTH printable bytes, then "\n".
IsFramed(s) ==
    /\ Len(s) \in 2 .. TEXT_BUFFER_WIDTH + 2
    /\ s[1] = NEWLINE /\ s[Len(s)] = NEWLINE
    /\ \A i \in 2 .. Len(s) - 1 : IsPrintable(s[i])

\* C22: a newline moves every row one up, blanks the last row and resets
\* the column; a string of at most TEXT_BUFFER_WIDTH printable characters
\* written between two newlines stands in row TEXT_BUFFER_HEIGHT - 2 from
\* column 0 on.
C22_NewLineScrollsOneRow ==
    LET n == Len(vga.hist) IN
    n > 0 =>
        /\ vga.hist[n].s = <<NEWLINE>> =>
              /\ \A r \in 0 .. TEXT_BUFFER_HEIGHT - 2 :
                    vga.w.chars[r] = vga.prev.chars[r + 1]
              /\ vga.w.chars[TEXT_BUFFER_HEIGHT - 1] = [c \in Cols |-> BLANK]
              /\ vga.w.column_position = 0
              /\ vga.w.scrolls = 1
        /\ (vga.hist[n].op = "write_string" /\ IsFramed(vga.hist[n].s)) =>
              \A i \in 2 .. Len(vga.hist[n].s) - 1 :
                  vga.w.chars[TEXT_BUFFER_HEIGHT - 2][i - 2] = vga.hist[n].s[i]

C22_Witness ==
    /\ Len(vga.hist) = 3
    /\ vga.hist[2].s = <<NEWLINE, 104, 105, NEWLINE>>
    /\ vga.hist[3].op = "write_byte" /\ vga.hist[3].s = <<NEWLINE>>
    /\ vga.w.chars[TEXT_BUFFER_HEIGHT - 3][1] = 105
    /\ vga.prev.chars[TEXT_BUFFER_HEIGHT - 2][1] = 105
    /\ vga.prev.chars[TEXT_BUFFER_HEIGHT - 1][0] = BLANK

\* s is exactly TEXT_BUFFER_WIDTH printable bytes and a newline, with or
\* without a newline in front.
IsFullLine(s) ==
    /\ Len(s) \in {TEXT_BUFFER_WIDTH + 1, TEXT_BUFFER_WIDTH + 2}
    /\ s[Len(s)] = NEWLINE
    /\ Len(s) = TEXT_BUFFER_WIDTH + 2 => s[1] = NEWLINE
    /\ \A i \in 1 .. TEXT_BUFFER_WIDTH :
          IsPrintable(s[Len(s) - TEXT_BUFFER_WIDTH - 1 + i])

\* C23: k full-width lines, the first one starting at column 0 or with a
\* newline in front, then one empty line: each line caused exactly one
\* scroll (besides the one of a newline in front of it), and the i-th most
\* recent of them stands in row TEXT_BUFFER_HEIGHT - i - 2.
C23_FullLineOneRow ==
    LET n == Len(vga.hist) IN
    \A k \in 1 .. n - 1 :
        (/\ vga.hist[n].s = <<NEWLINE>>
         /\ \A i \in 1 .. k : /\ vga.hist[n - i].op = "write_string"
                               /\ IsFullLine(vga.hist[n - i].s)
         /\ \A i \in 1 .. k - 1 : vga.hist[n - i].s[1] # NEWLINE
         /\ vga.hist[n - k].col = 0 \/ vga.hist[n - k].s[1] = NEWLINE)
        => \A i \in 1 .. k :
              LET s == vga.hist[n - i].s IN
              /\ vga.hist[n - i].scrolls = Len(s) - TEXT_BUFFER_WIDTH
              /\ \A c \in Cols :
                    vga.w.chars[TEXT_BUFFER_HEIGHT - i - 2][c]
                        = s[Len(s) - TEXT_BUFFER_WIDTH + c]

C23_Witness ==
    /\ Len(vga.hist) = 3
    /\ IsFullLine(vga.hist[1].s) /\ IsFullLine(vga.hist[2].s)
    /\ vga.hist[1].s[1] = NEWLINE /\ vga.hist[1].scrolls = 2
    /\ vga.hist[2].scrolls = 1
    /\ vga.hist[3].s = <<NEWLINE>>
    /\ vga.w.chars[TEXT_BUFFER_HEIGHT - 3][0] = vga.hist[2].s[1]
    /\ vga.w.chars[TEXT_BUFFER_HEIGHT - 4][0] = vga.hist[1].s[2]

----------------------------------------------------------------------------
(* End of interrupt.                                                        *)

PrimaryRange == args[1] .. args[1] + 7

\* C24: notify_end_of_interrupt for a vector of the primary controller
\* (32 .. 39 with the kernel's offsets) makes exactly one port write, the
\* end-of-interrupt command on the primary's command port, and none to the
\* secondary.
C24_PrimaryEoiOnce ==
    (/\ last.op = "notify"
     /\ args = <<PIC_1_OFFSET, PIC_2_OFFSET>>
     /\ last.v \in PrimaryRange)
    => bus = <<W(PIC1_CMD, EOI)>>

\* C26: notify_end_of_interrupt for a vector in neither controller's range
\* makes no port access and leaves the driver's controllers and the chips
\* as they were.
C26_UnownedVectorNoEffect ==
    [][(/\ last'.op = "notify"
        /\ dev'.ops = dev.ops + 1
        /\ last'.v \notin PrimaryRange \cup SecondaryRange)
       => (bus' = <<>> /\ chip' = chip /\ pics' = pics)]_vars

C26_Witness ==
    /\ last.op = "notify"
    /\ last.v \notin PrimaryRange \cup SecondaryRange
    /\ last.v = args[1] - 1
    /\ chip["pic1"].isr # {}
    /\ bus = <<>>

----------------------------------------------------------------------------
(* The entries of the descriptor table.                                     *)

\* The vectors whose entry in the table built by the initialiser has a
\* handler.
BuiltHandlerVectors == {v \in 0 .. 255 : IdtBuild[v].handler # "none"}

\* C28: the built table has a handler at the breakpoint (3), double-fault
\* (8) and page-fault (14) vectors and at the timer (32) and keyboard (33)
\* vectors, each its own, and at no other of the 256 vectors; the processor
\* is given that table.
C28_HandlersExactlyFive ==
    idt.built =>
        /\ idt.table = IdtBuild
        /\ BuiltHandlerVectors = {BREAKPOINT_VECTOR, DOUBLE_FAULT_VECTOR,
                                  PAGE_FAULT_VECTOR, PIC_1_OFFSET,
                                  PIC_1_OFFSET + 1}
        /\ BuiltHandlerVectors = {3, 8, 14, 32, 33}
        /\ idt.table[BREAKPOINT_VECTOR].handler = "bp"
        /\ idt.table[DOUBLE_FAULT_VECTOR].handler = "df"
        /\ idt.table[PAGE_FAULT_VECTOR].handler = "pf"
        /\ idt.table[PIC_1_OFFSET].handler = "timer"
        /\ idt.table[PIC_1_OFFSET + 1].handler = "kbd"
        /\ idtr.loaded => idtr.table = idt.table

C28_Witness ==
    /\ idt.built /\ idtr.loaded
    /\ Depth = 2 /\ Top.h = "kbd"
    /\ idtr.table[PIC_1_OFFSET + 1].handler = "kbd"
    /\ idtr.table[PIC_1_OFFSET + 3].handler = "none"
    /\ idtr.table[PIC_2_OFFSET].handler = "none"

----------------------------------------------------------------------------
(* The test harness.                                                        *)

\* The statement of kernel_main that is the exit_qemu(Success) of
\* test_runner.
ExitPos == 1 + Len(InitBody) + Len(TestMain)

Exited(code) == \E i \in 1 .. Len(boot.exits) : boot.exits[i] = code

\* C25: the two exit codes differ; Success is written once, by test_runner
\* with no handler active, after every test has run and returned in order
\* (their names, their output and "[ok]" on the sinks) and never once a
\* panic has begun; Failed is written only by the panic handler, after its
\* report, and the panic handler is then never left.
C25_ExitCodes ==
    /\ [](/\ QEMU_SUCCESS # QEMU_FAILED
          /\ boot.exits \in {<<>>, <<QEMU_SUCCESS>>, <<QEMU_FAILED>>,
                              <<QEMU_SUCCESS, QEMU_FAILED>>}
          /\ Exited(QEMU_SUCCESS) =>
                /\ cfgtest /\ stack[1].pc > ExitPos
                /\ {"Running tests", "[ok]"} \subseteq out["SERIAL1"]
                /\ \A i \in 1 .. Len(Tests) : Tests[i].name \in out["SERIAL1"]
                /\ "EXCEPTION: BREAKPOINT" \in out["WRITER"]
                /\ "test_println_single_line output" \in out["WRITER"]
          /\ Exited(QEMU_FAILED) =>
                /\ cfgtest
                /\ {"[failed]", "Error: EXCEPTION: DOUBLE FAULT"}
                      \subseteq out["SERIAL1"]
                /\ \E i \in 1 .. Depth :
                      stack[i].h = "df" /\ FrameOp(i) = "hlt")
    /\ [][(boot'.exits # boot.exits
            /\ boot'.exits[Len(boot'.exits)] = QEMU_SUCCESS)
           => /\ Depth = 1 /\ stack[1].pc = ExitPos
              /\ ~Exited(QEMU_FAILED)
              /\ "[failed]" \notin out["SERIAL1"]]_vars
    /\ [][(\E i \in 1 .. Depth : stack[i].h = "df")
           => stack'[1].pc = stack[1].pc]_vars
    /\ [][Stays("df")]_vars

C25_Witness ==
    /\ boot.exits = <<QEMU_SUCCESS, QEMU_FAILED>>
    /\ Depth = 2 /\ Top.h = "df" /\ At("hlt")
    /\ stack[1].pc > ExitPos

----------------------------------------------------------------------------
(* Hardware handlers run to their end undisturbed.                          *)

HardwareFrames == {i \in 1 .. Depth : stack[i].h \in HardwareHandlers}

\* The lock the statement the hardware handler on top is at acquires, ""
\* if it acquires none.
Acquiring ==
    IF At("kbd_lock") THEN "KEYBOARD"
    ELSE IF At("notify") THEN "PICS"
    ELSE IF At("print") /\ Top.sub = 1 THEN Cur.sink
    ELSE ""

\* C27: while a timer or keyboard handler is on the stack signal delivery is
\* disabled, also after each print inside it; there is never more than one
\* such handler on the stack and only exception handlers run above it; and
\* every lock it acquires (KEYBOARD, WRITER, PICS) is free when it gets to
\* the acquisition.
C27_HandlersRunUninterrupted ==
    /\ [](HardwareFrames # {} => ~intEnabled)
    /\ [](Cardinality(HardwareFrames) <= 1)
    /\ [](\A i \in HardwareFrames :
            \A j \in i + 1 .. Depth : stack[j].h \in ExceptionHandlers)
    /\ []((Running /\ Top.h \in HardwareHandlers /\ Acquiring # "")
            => lock[Acquiring] = 0)
    /\ [][(Running /\ Top.h \in HardwareHandlers /\ At("print")
            /\ Top.sub = 3 /\ stack' # stack /\ Len(stack') = Depth)
           => (~intEnabled' /\ stack'[Depth].pc = Top.pc + 1)]_vars

C27_Witness ==
    /\ Depth = 2 /\ Top.h = "timer" /\ At("notify")
    /\ "." \in out["WRITER"]
    /\ 1 \in chip["pic1"].irr
    /\ ~intEnabled /\ stack[1].wi = FALSE /\ Top.rf

====
